---- MODULE Spec2Model ----
(***************************************************************************)
(* The websocket fan-out hub of yzcdpg/exws.                               *)
(*                                                                         *)
(* The repository holds two variants of the same program:                  *)
(*   "chan"  src/main.go          the acceptor registers through the       *)
(*                                register channel; the hub inserts.       *)
(*   "uuid"  src/unnamed/part_000 the acceptor reads a client identifier   *)
(*                                and inserts into the map itself.         *)
(* The variant is fixed in the initial state and never changes.            *)
(*                                                                         *)
(* Tasks: one hub loop (ClientManager.start), one handler per accepted     *)
(* connection (handleConnections), the producer (simulatePriceUpdate).     *)
(* The three channels are unbuffered, so a send and its receive are one    *)
(* joint step of the sender and the hub.  sync.Mutex is not reentrant: a   *)
(* Lock by the task that already holds it blocks like any other.           *)
(***************************************************************************)
EXTENDS Integers, Sequences, FiniteSets, TLC

\* Number of connections the acceptor serves.
NumConns == 2
\* Number of ticks each producer emits before the model stops it.
MaxTick == 2
\* Number of simulatePriceUpdate tasks: main starts one.
NumProducers == 1

Conns == 1..NumConns
Producers == 1..NumProducers
Variants == {"chan", "uuid"}
NoConn == 0

VARIABLES
    variant,     \* which source file is running
    clients,     \* manager.clients: the keys of the map
    mutex,       \* manager.mutex: Free, or the task that locked it
    hubPc,       \* position of ClientManager.start
    hConn,       \* conn received by the register / unregister case
    asset,       \* asset received by the broadcast case
    visited,     \* keys the range loop has already produced in this pass
    cur,         \* conn of the current iteration of the range loop
    hPc,         \* position of each handleConnections call
    closeCount,  \* number of conn.Close() calls made on each connection
    prodPc,      \* position of each simulatePriceUpdate
    tick,        \* number of snapshots each producer has computed
    received,    \* per connection: the snapshots whose WriteJSON succeeded, in order
    acceptLog,   \* the snapshots in the order the hub received them
    passStart,   \* the keys of the map when the range loop of the current pass began
    attempts,    \* per connection: WriteJSON calls made in the current pass
    passFailed,  \* connections whose WriteJSON failed in the current pass
    lastCloser,  \* per connection: tasks that called Close, in order
    uuidFailed,  \* connections whose first ReadJSON failed
    found,       \* outcome of the map lookup of the unregister case the hub ran last
    registered,  \* connections that have been inserted into the map at some point
    unregSent,   \* per connection: completed sends on manager.unregister
    previousPrice, \* simulatePriceUpdate: previousPrice, in thousandths
    newPrice,    \* simulatePriceUpdate: newPrice of the last iteration, in thousandths
    rnd,         \* the value rand.Float64() returned in the last iteration, in RandSteps-ths
    snap         \* simulatePriceUpdate: asset of the last iteration, fields in 1/10000

vars == <<variant, clients, mutex, hubPc, hConn, asset, visited, cur, hPc,
          closeCount, prodPc, tick, received, acceptLog, passStart, attempts,
          passFailed, lastCloser, uuidFailed, found, registered, unregSent,
          previousPrice, newPrice, rnd, snap>>

hubVars == <<hubPc, hConn, asset, visited, cur>>
passVars == <<passStart, attempts, passFailed>>
prodVars == <<prodPc, tick>>
priceVars == <<previousPrice, newPrice, rnd, snap>>

\* Fixed point: prices in thousandths, the position size in tenths, money
\* (their product) in 1/10000.
\* previousPrice := 100.0
InitialPrice == 100000
\* balance := 26800.5
Balance == 268005000
\* amount := 88.8
Amount == 888
\* the 100.0 of lockBalance := 100.0 * amount
LockPrice == 100000
LockBalance == LockPrice * Amount
\* rand.Float64() is in [0, 1): the values k / RandSteps, k in 0..RandSteps-1.
RandSteps == 1000
RandValues == 0..(RandSteps - 1)
\* the 100 of (rand.Float64()-0.5)/100
DeltaDivisor == 100

\* newPrice := previousPrice * (1 + (rand.Float64()-0.5)/100), with
\* rand.Float64() = k / RandSteps.
NewPrice(prev, k) ==
    prev + (prev * (2 * k - RandSteps)) \div (2 * RandSteps * DeltaDivisor)

\* pnl := (newPrice - previousPrice) * amount
Pnl(new, prev) == (new - prev) * Amount

\* A faulty MakeAsset: the margin adds the pnl.
MakeAsset_PlusPnl(pnl) ==
    [balance |-> Balance,
     pnl |-> pnl,
     margin |-> Balance + pnl,
     canTransfer |-> Balance + pnl - LockBalance]

\* asset := Asset{Balance: balance, Pnl: pnl, Margin: balance - pnl,
\*                CanTransfer: balance - pnl - lockBalance}
MakeAsset(pnl) ==
    [balance |-> Balance,
     pnl |-> pnl,
     margin |-> Balance - pnl,
     canTransfer |-> Balance - pnl - LockBalance]

\* No asset has been built yet.
NoSnap == [balance |-> 0, pnl |-> 0, margin |-> 0, canTransfer |-> 0]

NoAsset == <<0, 0>>

\* The holders of manager.mutex.
Free == <<"free", NoConn>>
Hub == <<"hub", NoConn>>
Handler(c) == <<"handler", c>>

Init ==
    /\ variant \in Variants
    /\ clients = {}
    /\ mutex = Free
    /\ hubPc = "select"
    /\ hConn = NoConn
    /\ asset = NoAsset
    /\ visited = {}
    /\ cur = NoConn
    /\ hPc = [c \in Conns |-> "idle"]
    /\ closeCount = [c \in Conns |-> 0]
    /\ prodPc = [p \in Producers |-> "compute"]
    /\ tick = [p \in Producers |-> 0]
    /\ received = [c \in Conns |-> <<>>]
    /\ acceptLog = <<>>
    /\ passStart = {}
    /\ attempts = [c \in Conns |-> 0]
    /\ passFailed = {}
    /\ lastCloser = [c \in Conns |-> <<>>]
    /\ uuidFailed = {}
    /\ found = "none"
    /\ registered = {}
    /\ unregSent = [c \in Conns |-> 0]
    /\ previousPrice = [p \in Producers |-> InitialPrice]
    /\ newPrice = [p \in Producers |-> InitialPrice]
    /\ rnd = [p \in Producers |-> 0]
    /\ snap = [p \in Producers |-> NoSnap]

\* conn.Close(), called by task who.
Close(c, who) ==
    /\ closeCount' = [closeCount EXCEPT ![c] = @ + 1]
    /\ lastCloser' = [lastCloser EXCEPT ![c] = Append(@, who)]

Closed(c) == closeCount[c] > 0

----------------------------------------------------------------------------
(* ClientManager.start: the register case *)

\* case conn := <-cm.register, jointly with the handler's manager.register <- conn
HubRecvRegister(c) ==
    /\ hubPc = "select"
    /\ hPc[c] = "register_send"
    /\ hConn' = c
    /\ found' = "none"
    /\ hubPc' = IF variant = "chan" THEN "reg_lock" ELSE "reg_log"
    /\ hPc' = [hPc EXCEPT ![c] = "read"]
    /\ UNCHANGED <<variant, priceVars, registered, unregSent, clients, mutex, asset, visited, cur, closeCount,
                   prodVars, received, acceptLog, passVars, lastCloser, uuidFailed>>

HubRegLock ==
    /\ hubPc = "reg_lock"
    /\ mutex = Free
    /\ mutex' = Hub
    /\ hubPc' = "reg_insert"
    /\ UNCHANGED <<variant, priceVars, registered, unregSent, clients, hConn, asset, visited, cur, hPc, closeCount,
                   prodVars, received, acceptLog, passVars, lastCloser, uuidFailed, found>>

\* cm.clients[conn] = true; manager.mutex.Unlock()
HubRegInsert ==
    /\ hubPc = "reg_insert"
    /\ clients' = clients \cup {hConn}
    /\ mutex' = Free
    /\ hubPc' = "reg_log"
    /\ registered' = registered \cup {hConn}
    /\ UNCHANGED <<variant, priceVars, unregSent, hConn, asset, visited, cur, hPc, closeCount,
                   prodVars, received, acceptLog, passVars, lastCloser, uuidFailed, found>>

\* log.Printf(..., len(manager.clients)), read without the lock
HubRegLog ==
    /\ hubPc = "reg_log"
    /\ hubPc' = "select"
    /\ hConn' = NoConn
    /\ UNCHANGED <<variant, priceVars, registered, unregSent, clients, mutex, asset, visited, cur, hPc, closeCount,
                   prodVars, received, acceptLog, passVars, lastCloser, uuidFailed, found>>

----------------------------------------------------------------------------
(* ClientManager.start: the unregister case *)

\* case conn := <-cm.unregister, jointly with the handler's manager.unregister <- conn.
\* The "chan" handler loops back to ReadMessage, the "uuid" handler breaks and returns.
HubRecvUnregister(c) ==
    /\ hubPc = "select"
    /\ hPc[c] = "unreg_send"
    /\ hConn' = c
    /\ found' = "none"
    /\ hubPc' = "unreg_lock"
    /\ hPc' = [hPc EXCEPT ![c] = IF variant = "chan" THEN "read" ELSE "defer_close"]
    /\ unregSent' = [unregSent EXCEPT ![c] = @ + 1]
    /\ UNCHANGED <<variant, priceVars, registered, clients, mutex, asset, visited, cur, closeCount,
                   prodVars, received, acceptLog, passVars, lastCloser, uuidFailed>>

HubUnregLock ==
    /\ hubPc = "unreg_lock"
    /\ mutex = Free
    /\ mutex' = Hub
    /\ hubPc' = "unreg_check"
    /\ UNCHANGED <<variant, priceVars, registered, unregSent, clients, hConn, asset, visited, cur, hPc, closeCount,
                   prodVars, received, acceptLog, passVars, lastCloser, uuidFailed, found>>

\* if _, ok := manager.clients[conn]; ok { delete(manager.clients, conn) ...
HubUnregCheck ==
    /\ hubPc = "unreg_check"
    /\ IF hConn \in clients
         THEN /\ clients' = clients \ {hConn}
              /\ found' = "present"
              /\ hubPc' = "unreg_close"
         ELSE /\ clients' = clients
              /\ found' = "absent"
              /\ hubPc' = "unreg_end"
    /\ UNCHANGED <<variant, priceVars, registered, unregSent, mutex, hConn, asset, visited, cur, hPc, closeCount,
                   prodVars, received, acceptLog, passVars, lastCloser, uuidFailed>>

\* A faulty HubUnregClose: the deleted connection is not closed.
HubUnregClose_Forgotten ==
    /\ hubPc = "unreg_close"
    /\ hubPc' = "unreg_end"
    /\ UNCHANGED <<variant, priceVars, registered, unregSent, clients, mutex, hConn, asset, visited,
                   cur, hPc, closeCount, prodVars, received, acceptLog, passVars,
                   lastCloser, uuidFailed, found>>

\* ... conn.Close() }
HubUnregClose ==
    /\ hubPc = "unreg_close"
    /\ Close(hConn, "hub")
    /\ hubPc' = "unreg_end"
    /\ UNCHANGED <<variant, priceVars, registered, unregSent, clients, mutex, hConn, asset, visited, cur, hPc,
                   prodVars, received, acceptLog, passVars, uuidFailed, found>>

\* The end of the case: src/unnamed/part_000 unlocks (line 68), src/main.go
\* has no Unlock in this case and goes on holding the mutex.
HubUnregEnd ==
    /\ hubPc = "unreg_end"
    /\ mutex' = IF variant = "uuid" THEN Free ELSE mutex
    /\ hubPc' = "unreg_log"
    /\ UNCHANGED <<variant, priceVars, registered, unregSent, clients, hConn, asset, visited, cur, hPc, closeCount,
                   prodVars, received, acceptLog, passVars, lastCloser, uuidFailed, found>>

\* log.Printf(..., len(manager.clients))
HubUnregLog ==
    /\ hubPc = "unreg_log"
    /\ hubPc' = "select"
    /\ hConn' = NoConn
    /\ UNCHANGED <<variant, priceVars, registered, unregSent, clients, mutex, asset, visited, cur, hPc, closeCount,
                   prodVars, received, acceptLog, passVars, lastCloser, uuidFailed, found>>

----------------------------------------------------------------------------
(* ClientManager.start: the broadcast case *)

\* case asset := <-manager.broadcast, jointly with the producer's
\* manager.broadcast <- asset; the producer goes on to time.Sleep.
HubRecvBroadcast(p) ==
    /\ hubPc = "select"
    /\ prodPc[p] = "send"
    /\ asset' = <<p, tick[p]>>
    /\ acceptLog' = Append(acceptLog, <<p, tick[p]>>)
    /\ found' = "none"
    /\ hubPc' = "bc_lock"
    /\ prodPc' = [prodPc EXCEPT ![p] = "compute"]
    /\ UNCHANGED <<variant, priceVars, registered, unregSent, clients, mutex, hConn, visited, cur, hPc, closeCount,
                   tick, received, passVars, lastCloser, uuidFailed>>

\* manager.mutex.Lock(); for conn := range manager.clients
HubBcLock ==
    /\ hubPc = "bc_lock"
    /\ mutex = Free
    /\ mutex' = Hub
    /\ passStart' = clients
    /\ visited' = {}
    /\ attempts' = [c \in Conns |-> 0]
    /\ passFailed' = {}
    /\ hubPc' = "bc_iter"
    /\ UNCHANGED <<variant, priceVars, registered, unregSent, clients, hConn, asset, cur, hPc, closeCount,
                   prodVars, received, acceptLog, lastCloser, uuidFailed, found>>

\* Keys the range loop can produce next: a key is produced at most once, a key
\* deleted before it is reached is not produced, a key inserted during the
\* loop may be produced or skipped (the Go specification of range over a map).
RangeNext == clients \ visited
\* The loop cannot end while a key it started with is still present and unproduced.
RangeDone == (passStart \cap clients) \ visited = {}

\* A faulty HubBcNext: the loop may produce a key it has produced before.
HubBcNext_Revisit ==
    /\ hubPc = "bc_iter"
    /\ \E c \in clients :
         /\ cur' = c
         /\ visited' = visited \cup {c}
         /\ attempts' = [attempts EXCEPT ![c] = @ + 1]
    /\ hubPc' = "bc_write"
    /\ UNCHANGED <<variant, priceVars, registered, unregSent, clients, mutex, hConn, asset, hPc, closeCount,
                   prodVars, received, acceptLog, passStart, passFailed,
                   lastCloser, uuidFailed, found>>

\* The next iteration: conn is bound and conn.WriteJSON(asset) is called.
HubBcNext ==
    /\ hubPc = "bc_iter"
    /\ \E c \in RangeNext :
         /\ cur' = c
         /\ visited' = visited \cup {c}
         /\ attempts' = [attempts EXCEPT ![c] = @ + 1]
    /\ hubPc' = "bc_write"
    /\ UNCHANGED <<variant, priceVars, registered, unregSent, clients, mutex, hConn, asset, hPc, closeCount,
                   prodVars, received, acceptLog, passStart, passFailed,
                   lastCloser, uuidFailed, found>>

\* WriteJSON returns nil: the peer has the snapshot. A write on a transport
\* that was closed locally cannot succeed.
HubBcWriteOk ==
    /\ hubPc = "bc_write"
    /\ ~Closed(cur)
    /\ received' = [received EXCEPT ![cur] = Append(@, asset)]
    /\ hubPc' = "bc_iter"
    /\ UNCHANGED <<variant, priceVars, registered, unregSent, clients, mutex, hConn, asset, visited, cur, hPc,
                   closeCount, prodVars, acceptLog, passVars, lastCloser, uuidFailed, found>>

\* WriteJSON returns an error.
HubBcWriteFail ==
    /\ hubPc = "bc_write"
    /\ passFailed' = passFailed \cup {cur}
    /\ hubPc' = "bc_delete"
    /\ UNCHANGED <<variant, priceVars, registered, unregSent, clients, mutex, hConn, asset, visited, cur, hPc,
                   closeCount, prodVars, received, acceptLog, passStart, attempts,
                   lastCloser, uuidFailed, found>>

\* A faulty HubBcDelete: the failed connection stays in the map.
HubBcDelete_Forgotten ==
    /\ hubPc = "bc_delete"
    /\ hubPc' = "bc_close"
    /\ UNCHANGED <<variant, priceVars, registered, unregSent, clients, mutex, hConn, asset, visited, cur, hPc, closeCount,
                   prodVars, received, acceptLog, passVars, lastCloser, uuidFailed, found>>

\* delete(manager.clients, conn)
HubBcDelete ==
    /\ hubPc = "bc_delete"
    /\ clients' = clients \ {cur}
    /\ hubPc' = "bc_close"
    /\ UNCHANGED <<variant, priceVars, registered, unregSent, mutex, hConn, asset, visited, cur, hPc, closeCount,
                   prodVars, received, acceptLog, passVars, lastCloser, uuidFailed, found>>

\* conn.Close()
HubBcClose ==
    /\ hubPc = "bc_close"
    /\ Close(cur, "hub")
    /\ hubPc' = "bc_iter"
    /\ UNCHANGED <<variant, priceVars, registered, unregSent, clients, mutex, hConn, asset, visited, cur, hPc,
                   prodVars, received, acceptLog, passVars, uuidFailed, found>>

\* The range loop ends; manager.mutex.Unlock()
HubBcUnlock ==
    /\ hubPc = "bc_iter"
    /\ RangeDone
    /\ mutex' = Free
    /\ hubPc' = "select"
    /\ cur' = NoConn
    /\ asset' = NoAsset
    /\ visited' = {}
    /\ passStart' = {}
    /\ attempts' = [c \in Conns |-> 0]
    /\ passFailed' = {}
    /\ UNCHANGED <<variant, priceVars, registered, unregSent, clients, hConn, hPc, closeCount,
                   prodVars, received, acceptLog, lastCloser, uuidFailed, found>>

----------------------------------------------------------------------------
(* handleConnections, one call per connection *)

\* upgrader.Upgrade fails: the handler returns, there is no connection.
HUpgradeFail(c) ==
    /\ hPc[c] = "idle"
    /\ hPc' = [hPc EXCEPT ![c] = "done"]
    /\ UNCHANGED <<variant, priceVars, registered, unregSent, clients, mutex, hubVars, closeCount, prodVars,
                   received, acceptLog, passVars, lastCloser, uuidFailed, found>>

\* upgrader.Upgrade succeeds; defer conn.Close()
HUpgradeOk(c) ==
    /\ hPc[c] = "idle"
    /\ hPc' = [hPc EXCEPT ![c] = IF variant = "chan" THEN "register_send" ELSE "read_uuid"]
    /\ UNCHANGED <<variant, priceVars, registered, unregSent, clients, mutex, hubVars, closeCount, prodVars,
                   received, acceptLog, passVars, lastCloser, uuidFailed, found>>

\* conn.ReadJSON(&uuid) succeeds (src/unnamed/part_000 only)
HReadUUIDOk(c) ==
    /\ hPc[c] = "read_uuid"
    /\ hPc' = [hPc EXCEPT ![c] = "lock"]
    /\ UNCHANGED <<variant, priceVars, registered, unregSent, clients, mutex, hubVars, closeCount, prodVars,
                   received, acceptLog, passVars, lastCloser, uuidFailed, found>>

\* A faulty HReadUUIDFail: the error is logged and the handler goes on to register.
HReadUUIDFail_NoReturn(c) ==
    /\ hPc[c] = "read_uuid"
    /\ hPc' = [hPc EXCEPT ![c] = "lock"]
    /\ uuidFailed' = uuidFailed \cup {c}
    /\ UNCHANGED <<variant, priceVars, registered, unregSent, clients, mutex, hubVars, closeCount,
                   prodVars, received, acceptLog, passVars, lastCloser, found>>

\* conn.ReadJSON(&uuid) fails: return, which runs the deferred Close
HReadUUIDFail(c) ==
    /\ hPc[c] = "read_uuid"
    /\ hPc' = [hPc EXCEPT ![c] = "defer_close"]
    /\ uuidFailed' = uuidFailed \cup {c}
    /\ UNCHANGED <<variant, priceVars, registered, unregSent, clients, mutex, hubVars, closeCount, prodVars,
                   received, acceptLog, passVars, lastCloser, found>>

\* A faulty HLock: the handler goes on to its insert without the mutex.
HLock_NoWait(c) ==
    /\ hPc[c] = "lock"
    /\ hPc' = [hPc EXCEPT ![c] = "insert"]
    /\ UNCHANGED <<variant, priceVars, registered, unregSent, clients, mutex, hubVars, closeCount, prodVars,
                   received, acceptLog, passVars, lastCloser, uuidFailed, found>>

\* manager.mutex.Lock()
HLock(c) ==
    /\ hPc[c] = "lock"
    /\ mutex = Free
    /\ mutex' = Handler(c)
    /\ hPc' = [hPc EXCEPT ![c] = "insert"]
    /\ UNCHANGED <<variant, priceVars, registered, unregSent, clients, hubVars, closeCount, prodVars,
                   received, acceptLog, passVars, lastCloser, uuidFailed, found>>

\* manager.clients[conn] = Client{...}; manager.mutex.Unlock()
HInsert(c) ==
    /\ hPc[c] = "insert"
    /\ clients' = clients \cup {c}
    /\ mutex' = Free
    /\ hPc' = [hPc EXCEPT ![c] = "read"]
    /\ registered' = registered \cup {c}
    /\ UNCHANGED <<variant, priceVars, unregSent, hubVars, closeCount, prodVars,
                   received, acceptLog, passVars, lastCloser, uuidFailed, found>>

\* conn.ReadMessage() returns an error (the peer left, or the transport was
\* closed). A successful read changes nothing and loops. The next step is
\* manager.unregister <- conn. In src/main.go the loop has no break: after
\* the send the handler reads again, and a read after a failed read fails.
HReadFail(c) ==
    /\ hPc[c] = "read"
    /\ hPc' = [hPc EXCEPT ![c] = "unreg_send"]
    /\ UNCHANGED <<variant, priceVars, registered, unregSent, clients, mutex, hubVars, closeCount, prodVars,
                   received, acceptLog, passVars, lastCloser, uuidFailed, found>>

\* The handler returns: the deferred conn.Close() runs.
HDeferClose(c) ==
    /\ hPc[c] = "defer_close"
    /\ Close(c, "handler")
    /\ hPc' = [hPc EXCEPT ![c] = "done"]
    /\ UNCHANGED <<variant, priceVars, registered, unregSent, clients, mutex, hubVars, prodVars,
                   received, acceptLog, passVars, uuidFailed, found>>

----------------------------------------------------------------------------
(* simulatePriceUpdate *)

\* One iteration up to the send: the snapshot of this tick is built. Every
\* iteration but the first begins when the time.Sleep of the one before ends.
ProdCompute(p) ==
    /\ prodPc[p] = "compute"
    /\ tick[p] < MaxTick
    /\ tick' = [tick EXCEPT ![p] = @ + 1]
    /\ prodPc' = [prodPc EXCEPT ![p] = "send"]
    /\ UNCHANGED <<variant, priceVars, registered, unregSent, clients, mutex, hubVars, hPc, closeCount,
                   received, acceptLog, passVars, lastCloser, uuidFailed, found>>

----------------------------------------------------------------------------

HubStep ==
    \/ HubRegLock \/ HubRegInsert \/ HubRegLog
    \/ HubUnregLock \/ HubUnregCheck \/ HubUnregClose \/ HubUnregEnd \/ HubUnregLog
    \/ HubBcLock \/ HubBcNext \/ HubBcWriteOk \/ HubBcWriteFail
    \/ HubBcDelete \/ HubBcClose \/ HubBcUnlock

HandlerStep(c) ==
    \/ HUpgradeFail(c) \/ HUpgradeOk(c)
    \/ HReadUUIDOk(c) \/ HReadUUIDFail(c)
    \/ HLock(c) \/ HInsert(c)
    \/ HReadFail(c) \/ HDeferClose(c)

Next ==
    \/ HubStep
    \/ \E c \in Conns : HubRecvRegister(c) \/ HubRecvUnregister(c) \/ HandlerStep(c)
    \/ \E p \in Producers : HubRecvBroadcast(p) \/ ProdCompute(p)

Spec == Init /\ [][Next]_vars

\* Scheduling: every task that can run does run (the Go scheduler), a select
\* with a ready case that is ready again and again is eventually taken
\* (select chooses uniformly among ready cases), a Lock that can be acquired
\* again and again is eventually acquired (sync.Mutex starvation mode), and
\* every WriteJSON returns.  A ReadMessage may block for ever: no fairness.
Fairness ==
    /\ WF_vars(HubStep)
    /\ \A c \in Conns :
         /\ SF_vars(HubRecvRegister(c))
         /\ SF_vars(HubRecvUnregister(c))
         /\ SF_vars(HLock(c))
         /\ WF_vars(HUpgradeOk(c) \/ HUpgradeFail(c))
         /\ WF_vars(HReadUUIDOk(c) \/ HReadUUIDFail(c))
         /\ WF_vars(HInsert(c))
         /\ WF_vars(HDeferClose(c))
    /\ \A p \in Producers :
         /\ SF_vars(HubRecvBroadcast(p))
         /\ WF_vars(ProdCompute(p))

FairSpec == Spec /\ Fairness

----------------------------------------------------------------------------
(* simulatePriceUpdate: the arithmetic of one iteration *)

\* A faulty PriceTick: the new price is carried into the next iteration.
PriceTick_RandomWalk(p) ==
    /\ tick[p] < MaxTick
    /\ \E k \in RandValues :
         /\ rnd' = [rnd EXCEPT ![p] = k]
         /\ newPrice' = [newPrice EXCEPT ![p] = NewPrice(previousPrice[p], k)]
    /\ snap' = [snap EXCEPT ![p] = MakeAsset(Pnl(newPrice'[p], previousPrice[p]))]
    /\ previousPrice' = [previousPrice EXCEPT ![p] = newPrice'[p]]
    /\ tick' = [tick EXCEPT ![p] = @ + 1]
    /\ UNCHANGED <<variant, registered, unregSent, clients, mutex, hubVars, hPc,
                   closeCount, prodPc, received, acceptLog, passVars, lastCloser,
                   uuidFailed, found>>

\* One iteration of the loop with its values: the draw, newPrice, pnl and the
\* asset. ProdCompute is the same iteration with the asset named by its tick.
\* previousPrice is assigned before the loop and nowhere in it.
PriceTick(p) ==
    /\ tick[p] < MaxTick
    /\ \E k \in RandValues :
         /\ rnd' = [rnd EXCEPT ![p] = k]
         /\ newPrice' = [newPrice EXCEPT ![p] = NewPrice(previousPrice[p], k)]
    /\ snap' = [snap EXCEPT ![p] = MakeAsset(Pnl(newPrice'[p], previousPrice[p]))]
    /\ previousPrice' = previousPrice
    /\ tick' = [tick EXCEPT ![p] = @ + 1]
    /\ UNCHANGED <<variant, registered, unregSent, clients, mutex, hubVars, hPc,
                   closeCount, prodPc, received, acceptLog, passVars, lastCloser,
                   uuidFailed, found>>

PriceNext == \E p \in Producers : PriceTick(p)

\* The producer alone, every send taken at once.
PriceSpec == Init /\ [][PriceNext]_vars

----------------------------------------------------------------------------
(* Properties *)

\* The hub is inside a broadcast pass: from the Lock of the broadcast case to its Unlock.
InPass == hubPc \in {"bc_iter", "bc_write", "bc_delete", "bc_close"}

\* The range loop of the pass has ended and the Unlock is next.
PassEnded == hubPc = "bc_iter" /\ RangeDone

\* C1: the registry never contains a connection whose transport has been closed.
C1_RegistryHoldsNoClosed == \A c \in clients : ~Closed(c)

\* C2: when a broadcast pass over N connections of which K fail ends, each of
\* the N was written exactly once and no other connection was written, the
\* registry is exactly the N-K whose write succeeded, each of the K was closed
\* once, by the hub, in this pass, and a connection that is closed and did not
\* fail in this pass is not written in it.
C2_FanOutComplete ==
    /\ PassEnded =>
         /\ \A c \in Conns : attempts[c] = (IF c \in passStart THEN 1 ELSE 0)
         /\ passFailed \subseteq passStart
         /\ clients = passStart \ passFailed
         /\ \A c \in passFailed : closeCount[c] = 1 /\ lastCloser[c] = <<"hub">>
    /\ InPass => \A c \in Conns : (Closed(c) /\ c \notin passFailed) => attempts[c] = 0

\* C2 witness: a pass over two connections ends with one failed write.
C2_Witness ==
    /\ PassEnded
    /\ Cardinality(passStart) = 2
    /\ Cardinality(passFailed) = 1

\* C3: while a broadcast pass is in progress the hub holds the mutex, the only
\* change to the registry is the pass's own delete of the connection whose
\* write failed, and the pass is not replaced by another one: the snapshot
\* and the keys it started with stay the same until its Unlock.
C3_BroadcastSerialized ==
    /\ [](InPass => mutex = Hub)
    /\ [][InPass =>
            /\ \/ clients' = clients
               \/ /\ hubPc = "bc_delete"
                  /\ hubPc' = "bc_close"
                  /\ clients' = clients \ {cur}
            /\ InPass' => (asset' = asset /\ passStart' = passStart)]_vars

\* C3 witness: a handler of src/unnamed/part_000 waits for the mutex while a
\* pass is writing, and another is waiting with its snapshot on the channel.
C3_Witness ==
    /\ hubPc = "bc_write"
    /\ \E c \in Conns : hPc[c] = "lock"
    /\ \E p \in Producers : prodPc[p] = "send"

\* C4: an unregister request for a connection that is not in the registry
\* changes neither the registry nor any transport, and the hub comes back to
\* its select without holding the mutex, as it was before the request.
C4_AbsentUnregisterIsNoOp ==
    /\ []((hubPc = "select" /\ found = "absent") => mutex # Hub)
    /\ [][(hubPc \in {"unreg_check", "unreg_end", "unreg_log"} /\ hubPc' # hubPc
           /\ found' = "absent")
            => (clients' = clients /\ closeCount' = closeCount)]_vars

\* C5: Close is never called a second time on a connection.
C5_SingleClose == \A c \in Conns : closeCount[c] <= 1

\* The snapshots a producer can emit.
Snapshots == Producers \X (1..MaxTick)

\* The snapshots a connection has been delivered.
Delivered(c) == {received[c][i] : i \in 1..Len(received[c])}

\* A failure has happened on connection d: its read failed, its write failed,
\* or it was torn down.
HasFailed(d) == hPc[d] = "unreg_send" \/ d \in passFailed \/ Closed(d)

\* C6: once some connection has failed, every snapshot the hub accepts while
\* another connection c is registered is eventually delivered to c, unless c
\* itself leaves the registry.
C6_FailureContained ==
    \A c \in Conns : \A s \in Snapshots :
        (/\ hubPc = "bc_lock" /\ asset = s /\ c \in clients
         /\ \E d \in Conns \ {c} : HasFailed(d))
            ~> (s \in Delivered(c) \/ c \notin clients)

\* C7: every snapshot the producer has ready to send is eventually taken by
\* the hub and a broadcast pass runs for it.
C7_ProducerLive ==
    \A p \in Producers : \A t \in 1..MaxTick :
        (prodPc[p] = "send" /\ tick[p] = t) ~> (InPass /\ asset = <<p, t>>)

\* C8: a registered connection whose read has failed is eventually out of the
\* registry with its transport closed.
C8_ReadFailureUnregisters ==
    \A c \in Conns :
        (hPc[c] = "unreg_send" /\ c \in clients) ~> (c \notin clients /\ Closed(c))

\* Position of a snapshot in the order the hub accepted them (0: never accepted).
AcceptPos(s) ==
    IF \E i \in 1..Len(acceptLog) : acceptLog[i] = s
      THEN CHOOSE i \in 1..Len(acceptLog) : acceptLog[i] = s
      ELSE 0

C10_WriteCloseExclusive ==
    /\ [](hubPc = "bc_write" => (cur \in clients /\ ~Closed(cur)))
    /\ [][\A c \in Conns :
            (closeCount'[c] > closeCount[c]) =>
                /\ ~(hubPc = "bc_write" /\ cur = c)
                /\ c \notin uuidFailed =>
                     /\ c \notin clients
                     /\ mutex # Free
                     /\ lastCloser'[c][Len(lastCloser'[c])] = mutex[1]]_vars

\* C11: whenever the mutex is not held, every connection that was registered
\* and is no longer in the registry has had its transport closed.
C11_AbsentImpliesClosed ==
    mutex = Free => \A c \in registered \ clients : Closed(c)

\* C11 witness: the mutex is free, one connection has left the registry and
\* another is still in it.
C11_Witness ==
    /\ mutex = Free
    /\ registered \ clients # {}
    /\ clients # {}

\* C12: a connection whose handshake succeeded (and, in src/unnamed/part_000,
\* whose identifier was read) and that is at its registration step is
\* eventually inserted into the registry.
C12_RegisterSucceeds ==
    \A c \in Conns :
        (hPc[c] \in {"register_send", "lock"}) ~> (c \in registered)

\* C13: a connection whose identifier read failed is never inserted into the
\* registry, sends no unregister request, is never written by a broadcast
\* pass, and when its handler has returned it was closed once, by the handler.
C13_AbortedRegistration ==
    \A c \in uuidFailed :
        /\ c \notin registered /\ c \notin clients
        /\ hPc[c] \in {"defer_close", "done"}
        /\ unregSent[c] = 0
        /\ received[c] = <<>> /\ attempts[c] = 0 /\ cur # c
        /\ hPc[c] = "defer_close" => closeCount[c] = 0
        /\ hPc[c] = "done" => (closeCount[c] = 1 /\ lastCloser[c] = <<"handler">>)

\* C13 witness: an identifier read failed and the handler has returned, while
\* another connection is registered and a pass is writing.
C13_Witness ==
    /\ \E c \in uuidFailed : hPc[c] = "done" /\ Closed(c)
    /\ hubPc = "bc_write"

\* The hub is between two cases: it waits at its select, or has received
\* from a channel and is calling Lock.
HubOutside == hubPc \in {"select", "reg_lock", "unreg_lock", "bc_lock"}

\* C15: every case of the hub loop has released the mutex when it ends: the
\* hub never holds the mutex while it waits at its select or calls Lock.
C15_LockReleased == HubOutside => mutex # Hub

\* C16: a handler sends at most one unregister request, and does not read
\* again after it has sent one.
C16_ReaderTerminates ==
    \A c \in Conns :
        /\ unregSent[c] <= 1
        /\ unregSent[c] = 1 => hPc[c] \in {"defer_close", "done"}

\* A task is at a write of the map: an insert or a delete is its next step.
HubWrites == hubPc \in {"reg_insert", "unreg_check", "bc_delete"}
HandlerWrites(c) == hPc[c] = "insert"
\* The hub is at a read of the map made without the mutex: the len of a log line.
HubReadsUnlocked == hubPc \in {"reg_log", "unreg_log"} /\ mutex # Hub

\* C17: every write of the map is made by the task that holds the mutex, and
\* the hub is never at an unlocked read of the map while a handler is at a
\* write of it.
C17_GuardedAccess ==
    /\ HubWrites => mutex = Hub
    /\ \A c \in Conns : HandlerWrites(c) => mutex = Handler(c)
    /\ ~(HubReadsUnlocked /\ \E c \in Conns : HandlerWrites(c))

\* C14: every emitted snapshot has balance = 26800.5,
\* pnl = (newPrice - previousPrice) * 88.8, margin = balance - pnl and
\* transferable = margin - 100.0 * 88.8; a draw that gives a delta of +0.2%
\* on 100.0 gives newPrice 100.2, pnl 17.76, margin 26782.74 and
\* transferable 17902.74.
C14_SnapshotArithmetic ==
    \A p \in Producers :
        tick[p] > 0 =>
            /\ snap[p].balance = Balance
            /\ snap[p].pnl = (newPrice[p] - previousPrice[p]) * Amount
            /\ snap[p].margin = snap[p].balance - snap[p].pnl
            /\ snap[p].canTransfer = snap[p].margin - LockPrice * Amount
            /\ rnd[p] = 700 =>
                 /\ newPrice[p] = 100200
                 /\ snap[p].pnl = 177600
                 /\ snap[p].margin = 267827400
                 /\ snap[p].canTransfer = 179027400

\* C14 witness: a tick whose draw gives the delta of +0.2%.
C14_Witness == \E p \in Producers : tick[p] > 0 /\ rnd[p] = 700

\* C18: previousPrice is 100.0 at every tick, every newPrice is within 0.5%
\* of 100.0, and every pnl is (newPrice - 100.0) * 88.8.
C18_FixedBaseline ==
    \A p \in Producers :
        /\ previousPrice[p] = InitialPrice
        /\ tick[p] > 0 =>
             /\ (newPrice[p] - InitialPrice) * 200 <= InitialPrice
             /\ (InitialPrice - newPrice[p]) * 200 <= InitialPrice
             /\ snap[p].pnl = (newPrice[p] - InitialPrice) * Amount

\* C18 witness: a second tick has run and its price differs from the baseline.
C18_Witness == \E p \in Producers : tick[p] = 2 /\ newPrice[p] # InitialPrice

====
